---- MODULE Spec2Model ----
(***************************************************************************)
(* The tool registry of manage-tools: name and directory validation, the   *)
(* SQLite connection wrapper with its transaction state, the per-tool      *)
(* schema (documents_<id>, vectors_<id> and their indexes) and the         *)
(* registry operations add / get / list / update / delete / enable /       *)
(* disable.                                                                *)
(*                                                                         *)
(* Strings whose characters matter (tool names) are sequences of code      *)
(* points.  Strings that are only searched for a fixed phrase (paths and   *)
(* error messages) are sequences of fragments, the phrase "does not exist" *)
(* being one fragment.                                                     *)
(***************************************************************************)
EXTENDS Integers, Sequences, FiniteSets, TLC

VARIABLES
    phase,   \* "init": DatabaseConnection built; "ready": outside a with block;
             \* "block": inside one; "called": inside one, a registry call just ended
    conn,    \* DatabaseConnection._connection: "none" or "open"
    inTxn,   \* whether the sqlite3 connection has a transaction open
    disk,    \* the committed database
    view,    \* the database as the connection sees it (disk plus uncommitted writes)
    ever,    \* history: the greatest tool id that was ever committed
    clock,   \* the next reading of the clock
    toggle,  \* history: per name, the latest successful enable/disable since the row was inserted
    last     \* the latest call and how it ended

vars == <<phase, conn, inTxn, disk, view, ever, clock, toggle, last>>

-----------------------------------------------------------------------------
(* Bounds of the model *)

\* add is not called once the AUTOINCREMENT counter has reached MaxId
MaxId == 2
\* the clock's readings: 0, 1, ... MaxTime, and MaxTime from then on
MaxTime == 1
\* the names validated: a run of letters, then at most MaxSuffix free characters
MaxSuffix == 2

\* len(name) > 64
NameLimit == 64

-----------------------------------------------------------------------------
(* Name validation *)

\* the character class [a-zA-Z0-9_-], by code point
AllowedChar(ch) == ch \in (97..122) \cup (65..90) \cup (48..57) \cup {95, 45}

AllAllowed(s, n) == \A i \in 1..n : AllowedChar(s[i])

\* re.match(r'^[a-zA-Z0-9_-]+$', name): '+' needs one character at least, and
\* '$' matches at the end of the string or just before a newline that ends it
ReMatchName(s) ==
    \/ Len(s) >= 1 /\ AllAllowed(s, Len(s))
    \/ Len(s) >= 2 /\ s[Len(s)] = 10 /\ AllAllowed(s, Len(s) - 1)

TOOL_NAME_EMPTY == <<"Tool name cannot be empty">>
TOOL_NAME_INVALID_CHARS ==
    <<"Tool name can only contain letters, numbers, hyphens (-), and underscores (_)">>
TOOL_NAME_TOO_LONG == <<"Tool name must be 64 characters or less">>

\* the message of the ValueError _validate_tool_name raises, <<>> when it returns
_validate_tool_name(name) ==
    IF Len(name) = 0 THEN TOOL_NAME_EMPTY
    ELSE IF ~ReMatchName(name) THEN TOOL_NAME_INVALID_CHARS
    ELSE IF Len(name) > NameLimit THEN TOOL_NAME_TOO_LONG
    ELSE <<>>

-----------------------------------------------------------------------------
(* Directory validation *)

DoesNotExist == "does not exist"

\* error_msg contains "does not exist"
Contains(msg, phrase) == \E i \in 1..Len(msg) : msg[i] = phrase

\* The file system the validator reads: what each sample path is, and the
\* text of the exception when resolving or stat-ing it raises.
FileSystem ==
    { [path |-> <<"/", "srv/docs">>,                     kind |-> "dir",     err |-> <<>>],
      [path |-> <<"docs">>,                              kind |-> "dir",     err |-> <<>>],
      [path |-> <<"/", "srv/missing">>,                  kind |-> "missing", err |-> <<>>],
      [path |-> <<"/", "srv/notes.txt">>,                kind |-> "file",    err |-> <<>>],
      [path |-> <<"/", "srv/", DoesNotExist, ".txt">>,   kind |-> "file",    err |-> <<>>],
      [path |-> <<"/", "srv/loop">>,                     kind |-> "raises",
       err |-> <<"Symlink loop from '/srv/loop'">>],
      [path |-> <<"/", "srv/", DoesNotExist, "/loop">>,  kind |-> "raises",
       err |-> <<"Symlink loop from '/srv/", DoesNotExist, "/loop'">>] }

Paths == {f.path : f \in FileSystem}
Stat(p) == CHOOSE f \in FileSystem : f.path = p

\* Path(directory_path).resolve(): absolute, the working directory joined
\* before a relative path
Resolve(p) == IF Len(p) >= 1 /\ p[1] = "/" THEN p ELSE <<"/", "cwd/">> \o p

\* (is_valid, resolved_path, error_message)
validate_directory_path(p) ==
    LET f == Stat(p) IN
    IF f.kind = "raises"
    THEN [is_valid |-> FALSE, resolved_path |-> <<>>,
          error_msg |-> <<"Invalid path: ">> \o p \o <<" (">> \o f.err \o <<")">>]
    ELSE IF f.kind = "missing"
    THEN [is_valid |-> FALSE, resolved_path |-> <<>>,
          error_msg |-> <<"Directory ", DoesNotExist, ": ">> \o p]
    ELSE IF f.kind # "dir"
    THEN [is_valid |-> FALSE, resolved_path |-> <<>>,
          error_msg |-> <<"Path is not a directory: ">> \o p]
    ELSE [is_valid |-> TRUE, resolved_path |-> Resolve(p), error_msg |-> <<>>]

\* the exception add_tool and update_tool raise for a directory that is not valid
DirectoryError(error_msg) ==
    IF Contains(error_msg, DoesNotExist) THEN "FileNotFoundError" ELSE "ValueError"

-----------------------------------------------------------------------------
(* The database and the connection *)

\* the names the registry is called with: "a", "B", "!"
Names == { <<97>>, <<66>>, <<33>> }
Descriptions == {"d1", "d2"}
AppVersions == {"NULL"}

EmptyDb == [tools |-> {}, seq |-> 0, tables |-> {}, indexes |-> {}]

\* the state of a DatabaseConnection and of the database behind it; calls
\* lists the calls the running operation makes on the sqlite3 connection
Cur == [conn |-> conn, inTxn |-> inTxn, disk |-> disk, view |-> view,
        ever |-> ever, calls |-> <<>>]

Ids(db) == {r.id : r \in db.tools}
MaxOf(S) == IF S = {} THEN 0 ELSE CHOOSE m \in S : \A x \in S : x <= m

\* the connection's writes reach the disk
Persist(c) == [c EXCEPT !.disk = c.view, !.ever = MaxOf(Ids(c.view) \cup {c.ever})]

\* DatabaseConnection.connect: a new sqlite3 connection unless one is held
connect(c) ==
    IF c.conn = "none"
    THEN [c EXCEPT !.conn = "open", !.calls = Append(@, "connect")]
    ELSE c

\* DatabaseConnection.close: closing discards what was not committed
close(c) ==
    IF c.conn = "open"
    THEN [c EXCEPT !.conn = "none", !.inTxn = FALSE, !.view = c.disk,
                   !.calls = Append(@, "close")]
    ELSE c

\* DatabaseConnection.commit
commit(c) ==
    IF c.conn = "open"
    THEN [Persist(c) EXCEPT !.inTxn = FALSE, !.calls = Append(@, "commit")]
    ELSE c

\* DatabaseConnection.rollback
rollback(c) ==
    IF c.conn = "open"
    THEN [c EXCEPT !.inTxn = FALSE, !.view = c.disk, !.calls = Append(@, "rollback")]
    ELSE c

\* execute of INSERT / UPDATE / DELETE: sqlite3 begins a transaction first
ExecWrite(c, newView) == [connect(c) EXCEPT !.inTxn = TRUE, !.view = newView]
\* the same statement raising: the transaction was begun, nothing is written
ExecWriteFails(c) == [connect(c) EXCEPT !.inTxn = TRUE]

\* execute of CREATE / DROP: sqlite3 begins no transaction for it, so outside
\* a transaction the statement is committed at once
ExecSchema(c, newView) ==
    LET c1 == [connect(c) EXCEPT !.view = newView]
    IN  IF c1.inTxn THEN c1 ELSE Persist(c1)

\* __exit__ committing whatever exc_type is
exit_AlwaysCommits(c, exc) == close(commit(c))

\* DatabaseConnection.__exit__(exc_type, ...): exc is exc_type is not None
__exit__(c, exc) == close(IF exc THEN rollback(c) ELSE commit(c))

-----------------------------------------------------------------------------
(* The per-tool schema *)

\* documents_{tool_id}, vectors_{tool_id}, idx_..._{tool_id}_...
TableName(kind, tool_id) == <<kind, tool_id>>

\* the statements of create_tool_tables, in order
CreateStatements(tool_id) ==
    << [table |-> TableName("documents", tool_id), index |-> "none"],
       [table |-> TableName("vectors", tool_id),   index |-> "none"],
       [table |-> TableName("vectors", tool_id),   index |-> "embedding"],
       [table |-> TableName("vectors", tool_id),   index |-> "tool_doc"],
       [table |-> TableName("documents", tool_id), index |-> "tool"],
       [table |-> TableName("documents", tool_id), index |-> "path_hash"],
       [table |-> TableName("documents", tool_id), index |-> "tool_path"],
       [table |-> TableName("vectors", tool_id),   index |-> "position"] >>

\* CREATE TABLE IF NOT EXISTS / CREATE INDEX IF NOT EXISTS
Create(db, st) ==
    IF st.index = "none"
    THEN [db EXCEPT !.tables = @ \cup {st.table}]
    ELSE [db EXCEPT !.indexes = @ \cup {<<st.table, st.index>>}]

\* DROP TABLE IF EXISTS: the table's indexes go with it
Drop(db, table) ==
    [db EXCEPT !.tables = @ \ {table},
               !.indexes = {ix \in @ : ix[1] # table}]

\* the first n statements of sts executed on c
RECURSIVE ExecCreates(_, _, _)
ExecCreates(c, sts, n) ==
    IF n = 0 THEN c
    ELSE LET c1 == ExecCreates(c, sts, n - 1)
         IN  ExecSchema(c1, Create(c1.view, sts[n]))

\* create_tool_tables, its statement number failAt raising (0: none does).
\* adopted: a CREATE TABLE IF NOT EXISTS found its table there already.
create_tool_tables(c, tool_id, failAt) ==
    LET sts  == CreateStatements(tool_id)
        n    == IF failAt = 0 THEN Len(sts) ELSE failAt - 1
        c1   == ExecCreates(c, sts, n)
        seen == \E i \in 1..n : sts[i].index = "none" /\ sts[i].table \in c.view.tables
    IN  [c |-> IF failAt = 0 THEN commit(c1) ELSE c1,
         raised |-> failAt # 0, adopted |-> seen]

\* drop_tool_tables, its statement number failAt raising (0: none does)
drop_tool_tables(c, tool_id, failAt) ==
    LET c1 == ExecSchema(c, Drop(c.view, TableName("vectors", tool_id)))
        c2 == ExecSchema(c1, Drop(c1.view, TableName("documents", tool_id)))
    IN  IF failAt = 1 THEN [c |-> connect(c), raised |-> TRUE]
        ELSE IF failAt = 2 THEN [c |-> c1, raised |-> TRUE]
        ELSE [c |-> commit(c2), raised |-> FALSE]

-----------------------------------------------------------------------------
(* The registry operations.  Each takes the connection state c and returns *)
(* the state it leaves and the call's outcome.                             *)

\* how a call ended: the exception raised ("none": it returned) with its
\* message, the value returned (ret: a bool, id: add's tool id), and the calls
\* it made on the sqlite3 connection
Outcome(op, name, description, source_directory) ==
    [op |-> op, name |-> name, description |-> description,
     source_directory |-> source_directory,
     exc |-> "none", msg |-> <<>>, ret |-> FALSE,
     id |-> 0, adopted |-> FALSE, calls |-> <<>>]

Ends(c, out) == [c |-> [c EXCEPT !.calls = <<>>], out |-> [out EXCEPT !.calls = c.calls]]
Raises(c, out, exc, msg) == Ends(c, [out EXCEPT !.exc = exc, !.msg = msg])
StorageError == <<"sqlite3.Error">>

\* SELECT * FROM tools WHERE name = ?  (the set is empty for None)
get_tool_by_name(db, name) == {r \in db.tools : r.name = name}

\* SELECT * FROM tools WHERE id = ?
get_tool_by_id(db, tool_id) == {r \in db.tools : r.id = tool_id}

\* ORDER BY name: SQLite's BINARY collation compares the bytes, a proper
\* prefix sorting first
NameBefore(a, b) ==
    \E k \in 0..Len(a) :
        /\ k <= Len(b)
        /\ \A i \in 1..k : a[i] = b[i]
        /\ \/ k = Len(a) /\ k < Len(b)
           \/ k < Len(a) /\ k < Len(b) /\ a[k + 1] < b[k + 1]

RECURSIVE OrderByName(_)
OrderByName(rows) ==
    IF rows = {} THEN <<>>
    ELSE LET first == CHOOSE r \in rows : \A q \in rows \ {r} : NameBefore(r.name, q.name)
         IN  <<first>> \o OrderByName(rows \ {first})

\* list_tools without its WHERE is_active = 1
list_tools_Unfiltered(db, active_only) == OrderByName(db.tools)

\* list_tools
list_tools(db, active_only) ==
    OrderByName(IF active_only THEN {r \in db.tools : r.is_active = 1} ELSE db.tools)

\* id INTEGER PRIMARY KEY without AUTOINCREMENT: one more than the greatest
\* id the table holds now
AutoIncrement_RowidReuse(db) == MaxOf(Ids(db)) + 1

\* id INTEGER PRIMARY KEY AUTOINCREMENT: one more than the greatest id the
\* table ever held, which sqlite_sequence keeps
AutoIncrement(db) == MaxOf(Ids(db) \cup {db.seq}) + 1

\* the row INSERT INTO tools (name, description, source_directory, app_version)
\* makes: is_active, created_at and updated_at take their defaults
NewRow(tool_id, name, description, resolved_path, app_version, t) ==
    [id |-> tool_id, name |-> name, description |-> description,
     source_directory |-> resolved_path, is_active |-> 1,
     app_version |-> app_version,
     created_at |-> t, updated_at |-> t]

TOOL_ALREADY_EXISTS == <<"Tool '{name}' already exists">>

\* add_tool without its check for a duplicate name
AddChecks_NoDuplicateCheck(db, name, source_directory) ==
    LET bad == _validate_tool_name(name)
        dir == validate_directory_path(source_directory)
    IN  IF bad # <<>> THEN <<"ValueError", bad>>
        ELSE IF ~dir.is_valid THEN <<DirectoryError(dir.error_msg), dir.error_msg>>
        ELSE <<>>

\* add_tool looking for a duplicate name before it validates the directory
AddChecks_DuplicateFirst(db, name, source_directory) ==
    LET bad == _validate_tool_name(name)
        dir == validate_directory_path(source_directory)
    IN  IF bad # <<>> THEN <<"ValueError", bad>>
        ELSE IF get_tool_by_name(db, name) # {}
        THEN <<"ValueError", TOOL_ALREADY_EXISTS>>
        ELSE IF ~dir.is_valid THEN <<DirectoryError(dir.error_msg), dir.error_msg>>
        ELSE <<>>

\* what add_tool raises before it writes: <<exception, message>>, <<>> for nothing
AddChecks(db, name, source_directory) ==
    LET bad == _validate_tool_name(name)
        dir == validate_directory_path(source_directory)
    IN  IF bad # <<>> THEN <<"ValueError", bad>>
        ELSE IF ~dir.is_valid THEN <<DirectoryError(dir.error_msg), dir.error_msg>>
        ELSE IF get_tool_by_name(db, name) # {}
        THEN <<"ValueError", TOOL_ALREADY_EXISTS>>
        ELSE <<>>

\* add_tool; failAt: 0 no statement raises, 1 the INSERT does, 1 + k
\* statement k of create_tool_tables does
add_tool(c, name, description, source_directory, app_version, t, failAt) ==
    LET out    == Outcome("add", name, {description}, {source_directory})
        dir    == validate_directory_path(source_directory)
        \* get_tool_by_name is reached once both validations passed
        reads  == _validate_tool_name(name) = <<>> /\ dir.is_valid
        c0     == IF reads THEN connect(c) ELSE c
        check  == AddChecks(c0.view, name, source_directory)
        tool_id == AutoIncrement(c0.view)
        row    == NewRow(tool_id, name, description, dir.resolved_path, app_version, t)
        c1     == ExecWrite(c0, [c0.view EXCEPT !.tools = @ \cup {row}, !.seq = tool_id])
        made   == create_tool_tables(c1, tool_id, IF failAt = 0 THEN 0 ELSE failAt - 1)
    IN  IF check # <<>> THEN Raises(c0, out, check[1], check[2])
        ELSE IF failAt = 1 THEN Raises(ExecWriteFails(c0), out, "sqlite3.Error", StorageError)
        ELSE IF made.raised
        THEN Raises(made.c, [out EXCEPT !.adopted = made.adopted], "sqlite3.Error", StorageError)
        ELSE Ends(commit(made.c), [out EXCEPT !.id = tool_id, !.adopted = made.adopted])

\* update_tool writing description whether or not it was supplied
UpdatedRow_WritesDescription(r, description, resolved, t) ==
    [r EXCEPT !.description = IF description = {} THEN "None" ELSE CHOOSE d \in description : TRUE,
              !.source_directory = IF resolved = {} THEN @ ELSE CHOOSE d \in resolved : TRUE,
              !.updated_at = t]

\* the row after UPDATE tools SET <the supplied fields>, updated_at = ?
\* (description and resolved are sets: empty when the field is not supplied)
UpdatedRow(r, description, resolved, t) ==
    [r EXCEPT !.description = IF description = {} THEN @ ELSE CHOOSE d \in description : TRUE,
              !.source_directory = IF resolved = {} THEN @ ELSE CHOOSE d \in resolved : TRUE,
              !.updated_at = t]

\* update_tool; failAt = 1: the UPDATE raises
update_tool(c, name, description, source_directory, t, failAt) ==
    LET out  == Outcome("update", name, description, source_directory)
        c0   == connect(c)
        dir  == validate_directory_path(CHOOSE p \in source_directory : TRUE)
        resolved == IF source_directory = {} THEN {} ELSE {dir.resolved_path}
        rows == {IF r.name = name THEN UpdatedRow(r, description, resolved, t) ELSE r :
                     r \in c0.view.tools}
    IN  IF get_tool_by_name(c0.view, name) = {} THEN Ends(c0, out)
        ELSE IF source_directory # {} /\ ~dir.is_valid
        THEN Raises(c0, out, DirectoryError(dir.error_msg), dir.error_msg)
        ELSE IF description = {} /\ source_directory = {}
        THEN Ends(c0, [out EXCEPT !.ret = TRUE])
        ELSE IF failAt = 1 THEN Raises(ExecWriteFails(c0), out, "sqlite3.Error", StorageError)
        ELSE Ends(commit(ExecWrite(c0, [c0.view EXCEPT !.tools = rows])),
                  [out EXCEPT !.ret = TRUE])

\* delete_tool; failAt: 1, 2 the first, second DROP raises, 3 the DELETE does
delete_tool(c, name, failAt) ==
    LET out   == Outcome("delete", name, {}, {})
        c0    == connect(c)
        tool  == get_tool_by_name(c0.view, name)
        tool_id == (CHOOSE r \in tool : TRUE).id
        dropped == drop_tool_tables(c0, tool_id, IF failAt \in {1, 2} THEN failAt ELSE 0)
        c1    == dropped.c
        c2    == ExecWrite(c1, [c1.view EXCEPT !.tools = {r \in @ : r.name # name}])
    IN  IF tool = {} THEN Ends(c0, out)
        ELSE IF dropped.raised THEN Raises(c1, out, "sqlite3.Error", StorageError)
        ELSE IF failAt = 3 THEN Raises(ExecWriteFails(c1), out, "sqlite3.Error", StorageError)
        ELSE Ends(commit(c2), [out EXCEPT !.ret = TRUE])

\* _set_tool_active_status; failAt = 1: the UPDATE raises
_set_tool_active_status(c, op, name, is_active, t, failAt) ==
    LET out  == Outcome(op, name, {}, {})
        c0   == connect(c)
        rows == {IF r.name = name
                 THEN [r EXCEPT !.is_active = IF is_active THEN 1 ELSE 0,
                                !.updated_at = t]
                 ELSE r : r \in c0.view.tools}
    IN  IF get_tool_by_name(c0.view, name) = {} THEN Ends(c0, out)
        ELSE IF failAt = 1 THEN Raises(ExecWriteFails(c0), out, "sqlite3.Error", StorageError)
        ELSE Ends(commit(ExecWrite(c0, [c0.view EXCEPT !.tools = rows])),
                  [out EXCEPT !.ret = TRUE])

enable_tool(c, name, t, failAt) == _set_tool_active_status(c, "enable", name, TRUE, t, failAt)
disable_tool(c, name, t, failAt) == _set_tool_active_status(c, "disable", name, FALSE, t, failAt)

-----------------------------------------------------------------------------------------------------------------------------------------------------
(* The state machine: a caller that builds the connection, initializes the *)
(* database, and calls the registry inside "with db_conn:" blocks.         *)

NoName == <<>>
Call(op) == Outcome(op, NoName, {}, {})

\* initialize_database: CREATE TABLE IF NOT EXISTS tools, then commit
initialize_database(c) == commit(ExecSchema(c, c.view))

Init ==
    /\ phase = "init"
    /\ conn = "none"
    /\ inTxn = FALSE
    /\ disk = EmptyDb
    /\ view = EmptyDb
    /\ ever = 0
    /\ clock = 0
    /\ toggle = [n \in Names |-> "none"]
    /\ last = Call("new")

\* the state a call leaves, r being what the operation returned
Leaves(r) ==
    /\ conn' = r.c.conn
    /\ inTxn' = r.c.inTxn
    /\ disk' = r.c.disk
    /\ view' = r.c.view
    /\ ever' = r.c.ever
    /\ last' = r.out
    \* CURRENT_TIMESTAMP and datetime.now(): a reading that was written is
    \* not read again before MaxTime
    /\ clock' = IF r.out.op \in {"add", "update", "enable", "disable"}
                    /\ r.c.view.tools # view.tools /\ clock < MaxTime
                 THEN clock + 1 ELSE clock
    /\ toggle' =
         IF r.out.op \in {"enable", "disable"} /\ r.out.ret
         THEN [toggle EXCEPT ![r.out.name] = r.out.op]
         ELSE IF r.out.op = "add" /\ get_tool_by_name(view, r.out.name) = {}
                 /\ get_tool_by_name(r.c.view, r.out.name) # {}
         THEN [toggle EXCEPT ![r.out.name] = "none"]
         ELSE toggle

\* create_dependencies
Initialize ==
    /\ phase = "init"
    /\ phase' = "ready"
    /\ Leaves(Ends(initialize_database(Cur), Call("initialize")))

\* DatabaseConnection.__enter__
Enter ==
    /\ phase = "ready"
    /\ phase' = "block"
    /\ Leaves(Ends(Cur, Call("enter")))

\* DatabaseConnection.__exit__, the block ending normally or by an exception
Exit(exc) ==
    /\ phase \in {"block", "called"}
    /\ phase' = "ready"
    /\ Leaves(Ends(__exit__(Cur, exc),
                   [Call("exit") EXCEPT !.exc = IF exc THEN "Exception" ELSE "none"]))

\* The caller goes on inside the block: the call returned, or the caller
\* caught what it raised
Resume ==
    /\ phase = "called"
    /\ phase' = "block"
    /\ Leaves(Ends(Cur, Call("resume")))

\* One representative of the arguments a call does not come to read
OneOf(S) == CHOOSE x \in S : TRUE
Unread(in, description, failAt) ==
    /\ description \in {{}, {OneOf(in.descriptions)}}
    /\ failAt = 0

Add(in, name, description, source_directory, app_version, failAt) ==
    LET r == add_tool(Cur, name, description, source_directory, app_version, clock, failAt)
    IN  /\ phase = "block"
        /\ r.c.view.seq <= MaxId
        /\ _validate_tool_name(name) # <<>> => source_directory = OneOf(in.paths)
        /\ AddChecks(view, name, source_directory) # <<>>
              => Unread(in, {description}, failAt)
        /\ Leaves(r)
        /\ phase' = "called"

GetByName(name) ==
    /\ phase = "block"
    /\ Leaves(Ends(connect(Cur), Call("get_tool_by_name")))
    /\ phase' = "called"

GetById(tool_id) ==
    /\ phase = "block"
    /\ Leaves(Ends(connect(Cur), Call("get_tool_by_id")))
    /\ phase' = "called"

List(active_only) ==
    /\ phase = "block"
    /\ Leaves(Ends(connect(Cur), Call("list_tools")))
    /\ phase' = "called"

Update(in, name, description, source_directory, failAt) ==
    /\ phase = "block"
    /\ get_tool_by_name(view, name) = {}
          => source_directory = {} /\ Unread(in, description, failAt)
    /\ \/ description = {} /\ source_directory = {}
       \/ source_directory # {} /\ ~validate_directory_path(OneOf(source_directory)).is_valid
       => failAt = 0
    /\ Leaves(update_tool(Cur, name, description, source_directory, clock, failAt))
    /\ phase' = "called"

Delete(name, failAt) ==
    /\ phase = "block"
    /\ get_tool_by_name(view, name) = {} => failAt = 0
    /\ Leaves(delete_tool(Cur, name, failAt))
    /\ phase' = "called"

Enable(name, failAt) ==
    /\ phase = "block"
    /\ get_tool_by_name(view, name) = {} => failAt = 0
    /\ Leaves(enable_tool(Cur, name, clock, failAt))
    /\ phase' = "called"

Disable(name, failAt) ==
    /\ phase = "block"
    /\ get_tool_by_name(view, name) = {} => failAt = 0
    /\ Leaves(disable_tool(Cur, name, clock, failAt))
    /\ phase' = "called"

\* a field that is not supplied is the empty set
Optional(S) == {{}} \cup {{x} : x \in S}

NextOver(in) ==
    \/ Initialize
    \/ Enter
    \/ Resume
    \/ \E exc \in BOOLEAN : Exit(exc)
    \/ \E name \in in.names, description \in in.descriptions, source_directory \in in.paths,
          app_version \in AppVersions, failAt \in in.addFails :
            Add(in, name, description, source_directory, app_version, failAt)
    \/ \E name \in in.names : GetByName(name)
    \/ \E tool_id \in 1..MaxId : GetById(tool_id)
    \/ \E active_only \in BOOLEAN : List(active_only)
    \/ \E name \in in.names, description \in Optional(in.descriptions),
          source_directory \in Optional(in.paths), failAt \in in.writeFails :
            Update(in, name, description, source_directory, failAt)
    \/ \E name \in in.names, failAt \in in.deleteFails : Delete(name, failAt)
    \/ \E name \in in.names, failAt \in in.writeFails : Enable(name, failAt)
    \/ \E name \in in.names, failAt \in in.writeFails : Disable(name, failAt)

\* The inputs of a specification: the arguments the caller passes and the
\* statements that may raise (failAt, 0 standing for "none raises").
TxnInputs ==
    [names |-> {<<97>>, <<66>>}, descriptions |-> {"d1"},
     paths |-> {<<"docs">>, <<"/", "srv/missing">>},
     addFails |-> {0, 1, 2, 3, 9}, writeFails |-> {0, 1}, deleteFails |-> 0..3]

FieldInputs ==
    [names |-> {<<97>>, <<66>>, <<33>>}, descriptions |-> {"d1", "d2"},
     paths |-> Paths,
     addFails |-> {0}, writeFails |-> {0}, deleteFails |-> {0}]

Spec == Init /\ [][NextOver(TxnInputs)]_vars
SpecFields == Init /\ [][NextOver(FieldInputs)]_vars

-----------------------------------------------------------------------------
(* Name validation on its own: every sample name is validated once.        *)

\* a, Z, 0, _, -, !, newline, space, e-acute
Alphabet == {97, 90, 48, 95, 45, 33, 10, 32, 233}
Letters(n) == [i \in 1..n |-> 97]
Suffixes == UNION {[1..k -> Alphabet] : k \in 0..MaxSuffix}
SampleNames ==
    {Letters(n) \o x : n \in {0, 1} \cup ((NameLimit - 2)..(NameLimit + 1)), x \in Suffixes}

InitValidate ==
    /\ phase = "init"
    /\ conn = "none"
    /\ inTxn = FALSE
    /\ disk = EmptyDb
    /\ view = EmptyDb
    /\ ever = 0
    /\ clock = 0
    /\ toggle = [n \in Names |-> "none"]
    /\ \E name \in SampleNames : last = Outcome("name", name, {}, {})

ValidateName ==
    LET msg == _validate_tool_name(last.name)
        out == Outcome("validate_tool_name", last.name, {}, {})
    IN  /\ last.op = "name"
        /\ last' = [out EXCEPT !.msg = msg,
                               !.exc = IF msg = <<>> THEN "none" ELSE "ValueError"]
        /\ UNCHANGED <<phase, conn, inTxn, disk, view, ever, clock, toggle>>

SpecValidate == InitValidate /\ [][ValidateName]_vars

-----------------------------------------------------------------------------
(* Properties *)

Registered(db, name) == \E r \in db.tools : r.name = name
BackingTables(tool_id) == {TableName("documents", tool_id), TableName("vectors", tool_id)}
Backed(db) == \A r \in db.tools : BackingTables(r.id) \subseteq db.tables
\* the step is a call of op from inside the block
Calls(op) == phase = "block" /\ last'.op = op
StoreUnchanged == disk' = disk /\ view' = view
GivenPath == OneOf(last.source_directory)
\* a name of 1 to 64 characters of [A-Za-z0-9_-]
ValidName(name) ==
    Len(name) \in 1..NameLimit /\ \A i \in 1..Len(name) : AllowedChar(name[i])

\* C1: add is all-or-nothing: after an add in which a statement raised, the
\* name is not registered on the connection and its tables do not exist, and
\* no state, committed or seen by the connection, holds a registry row
\* without both of its tables.
C1_AddAllOrNothing ==
    /\ last.op = "add" /\ last.exc = "sqlite3.Error" => ~Registered(view, last.name)
    /\ Backed(view)
    /\ Backed(disk)

\* C2: delete is one unit: after a delete of a registered tool the committed
\* store holds that tool's row and both its tables or none of the three, and
\* a delete in which a statement raised leaves the store as it was.
C2_DeleteOneUnit ==
    [][Calls("delete") /\ Registered(view, last'.name) =>
         LET tool == OneOf(get_tool_by_name(view, last'.name))
         IN  /\ \/ tool \in disk'.tools /\ BackingTables(tool.id) \subseteq disk'.tables
                \/ tool \notin disk'.tools /\ BackingTables(tool.id) \cap disk'.tables = {}
             /\ last'.exc # "none" => StoreUnchanged]_vars

\* C3: add of a name that is registered already, the name and the directory
\* being valid, fails with "already exists" and leaves rows and tables as
\* they were.
C3_DuplicateAdd ==
    [][Calls("add") /\ ValidName(last'.name)
         /\ Stat(OneOf(last'.source_directory)).kind = "dir"
         /\ Registered(view, last'.name) =>
            /\ last'.exc = "ValueError"
            /\ last'.msg = TOOL_ALREADY_EXISTS
            /\ StoreUnchanged]_vars

C3_Witness ==
    /\ phase = "called" /\ last.op = "add" /\ last.msg = TOOL_ALREADY_EXISTS
    /\ Registered(view, last.name)
    /\ Cardinality(view.tools) = 2

\* C4: add of a valid name with a directory that does not exist fails with
\* FileNotFoundError before any statement is executed, whether or not the
\* name is registered.
C4_MissingDirectory ==
    [][Calls("add") /\ ValidName(last'.name)
         /\ Stat(OneOf(last'.source_directory)).kind = "missing" =>
            /\ last'.exc = "FileNotFoundError"
            /\ last'.calls = <<>>
            /\ conn' = conn /\ inTxn' = inTxn
            /\ StoreUnchanged]_vars

C4_Witness ==
    /\ phase = "called" /\ last.op = "add" /\ last.exc = "FileNotFoundError"
    /\ Stat(GivenPath).kind = "missing"
    /\ Registered(view, last.name)

\* C5: name validation accepts exactly the names of 1 to 64 characters of
\* [A-Za-z0-9_-], and rejects the empty name as empty, a name with any other
\* character as invalid characters, a longer name of allowed characters as
\* too long.
C5_NameValidation ==
    last.op = "validate_tool_name" =>
        LET name == last.name
            clean == \A i \in 1..Len(name) : AllowedChar(name[i])
        IN  /\ last.msg = <<>> <=> ValidName(name)
            /\ Len(name) = 0 => last.msg = TOOL_NAME_EMPTY
            /\ ~clean => last.msg = TOOL_NAME_INVALID_CHARS
            /\ clean /\ Len(name) > NameLimit => last.msg = TOOL_NAME_TOO_LONG

\* C6: update of a registered tool changes, of what the connection sees,
\* only the supplied fields and updated_at of that tool's row; with no field
\* supplied it returns true and writes nothing; with a directory that is not
\* valid it raises and writes nothing.
C6_UpdateFrame ==
    [][Calls("update") /\ Registered(view, last'.name) =>
         LET name   == last'.name
             before == OneOf(get_tool_by_name(view, name))
             after  == OneOf(get_tool_by_name(view', name))
             given  == OneOf(last'.source_directory)
         IN  IF last'.description = {} /\ last'.source_directory = {}
             THEN /\ last'.exc = "none" /\ last'.ret /\ StoreUnchanged
                  /\ last'.calls \in {<<>>, <<"connect">>}
             ELSE IF last'.source_directory # {} /\ Stat(given).kind # "dir"
             THEN last'.exc # "none" /\ StoreUnchanged
             ELSE last'.exc = "none" =>
                 /\ last'.ret
                 /\ Cardinality(get_tool_by_name(view', name)) = 1
                 /\ {r \in view'.tools : r.name # name} = {r \in view.tools : r.name # name}
                 /\ view'.tables = view.tables /\ view'.indexes = view.indexes
                 /\ view'.seq = view.seq
                 /\ after.id = before.id /\ after.name = before.name
                 /\ after.is_active = before.is_active
                 /\ after.app_version = before.app_version
                 /\ after.created_at = before.created_at
                 /\ after.description =
                      IF last'.description = {} THEN before.description
                      ELSE OneOf(last'.description)
                 /\ last'.source_directory = {} =>
                      after.source_directory = before.source_directory]_vars

C6_Witness ==
    /\ phase = "called" /\ last.op = "update" /\ last.ret
    /\ last.description # {} /\ last.source_directory = {}
    /\ Cardinality(view.tools) = 2
    /\ \E r \in view.tools :
          /\ r.name = last.name
          /\ r.description = OneOf(last.description)
          /\ r.updated_at # r.created_at
          /\ r.source_directory = <<"/", "cwd/", "docs">>
          /\ r.is_active = 0

Ascending(rows) ==
    \A i, j \in 1..Len(rows) : i < j => NameBefore(rows[i].name, rows[j].name)
Elements(rows) == {rows[i] : i \in 1..Len(rows)}

\* list_tools(active_only) holds exactly the registered tools whose latest
\* enable/disable is not a disable (a tool just added counts as enabled),
\* list_tools() holds every registered tool, both once each and by ascending
\* name
ListsAgree ==
    LET active == list_tools(view, TRUE)
        all    == list_tools(view, FALSE)
    IN  /\ Elements(active) = {r \in view.tools : toggle[r.name] # "disable"}
        /\ Elements(all) = view.tools
        /\ Len(active) = Cardinality(Elements(active))
        /\ Len(all) = Cardinality(view.tools)
        /\ Ascending(active) /\ Ascending(all)

\* C7: the lists agree with the enable/disable history in every state (see
\* ListsAgree), and enable and disable of a name that is not registered
\* return false and change nothing.
C7_ListAndToggle ==
    /\ []ListsAgree
    /\ [][(Calls("enable") \/ Calls("disable")) /\ ~Registered(view, last'.name) =>
            /\ last'.exc = "none" /\ ~last'.ret
            /\ StoreUnchanged /\ toggle' = toggle]_vars

C7_Witness ==
    /\ Len(list_tools(view, FALSE)) = 2
    /\ Len(list_tools(view, TRUE)) = 1
    /\ list_tools(view, FALSE)[1].name = <<66>>
    /\ \E n \in Names : toggle[n] = "enable" /\ Registered(view, n)
    /\ \E n \in Names : toggle[n] = "disable" /\ Registered(view, n)

C9_DirectoryKind ==
    last.op \in {"add", "update"} /\ last.exc = "FileNotFoundError" =>
        Stat(GivenPath).kind = "missing"

\* C10: the id a successful add returns is greater than every id that was
\* ever committed, and no add finds a table of its id there already.
C10_FreshIds ==
    [][Calls("add") =>
         /\ ~last'.adopted
         /\ last'.exc = "none" =>
              /\ last'.id > ever
              /\ BackingTables(last'.id) \cap (view.tables \cup disk.tables) = {}
              /\ \A r \in view.tools : r.id # last'.id]_vars

C10_Witness ==
    /\ phase = "called" /\ last.op = "add" /\ last.exc = "none" /\ last.id = 2
    /\ Cardinality(view.tools) = 1
    /\ ever = 2

====
